---------------------------- MODULE Spec2Model ----------------------------
(***************************************************************************)
(* A model of ZypShot (src/zypshot.py): an interactive terminal front-end  *)
(* for the snapper snapshot tool.                                          *)
(*                                                                         *)
(* Text is modelled as a sequence of one-character strings, so that the    *)
(* parsers split, trim and slice it the way the Python code does.  A key   *)
(* name of the configuration file is one symbol of such a sequence.        *)
(***************************************************************************)
EXTENDS Integers, Sequences, FiniteSets, TLC

VARIABLES
    pc,              \* the prompt (or end state) the program is at
    key,             \* the last thing the user entered at a prompt
    output,          \* what run_snapper_command returned to list_snapshots
    snapshots,       \* list_snapshots' result
    warnings,        \* the lines list_snapshots reported as malformed
    statusOut,       \* what run_snapper_command returned to compare_snapshots
    added_files,     \* compare_snapshots' three buckets
    removed_files,
    modified_files,
    files,           \* display_paginated_files' arguments and locals
    items_per_page,
    total_pages,
    current_page,
    shown,           \* the rows of the page on screen: <<number, path>>
    choices,         \* the choices the open prompt accepts
    cfg,             \* /etc/snapper/configs/root: its content and what this
                     \* user may do with it
    cfgBefore,       \* the file's content when the running edit began
    wrote,           \* the running edit opened the file for writing
    setting,         \* edit_cleanup_settings' setting
    value,           \* and the value entered for it
    message,         \* the message the last handler printed, "" when none
    choice,          \* main_menu's choice, "" at the main menu
    number,          \* what select_snapshot returned (num1 and num2 for compare)
    deleted,         \* the numbers `snapper delete` was run with, in order
    farewell         \* "Exiting..." has been printed

listVars == <<output, snapshots, warnings>>
diffVars == <<statusOut, added_files, removed_files, modified_files>>
pageVars == <<files, items_per_page, total_pages, current_page, shown, choices>>
cfgVars == <<cfg, cfgBefore, wrote, setting, value>>
menuVars == <<choice, number, deleted, farewell>>
vars == <<pc, key, listVars, diffVars, pageVars, cfgVars, message, menuVars>>

---------------------------------------------------------------------------
(* Bounds of the model. *)

MaxOutLines == 5     \* lines of a tool output of the list command
MaxDiffLines == 3    \* lines of a tool output of the status command
MaxFiles == 45       \* files handed to the paginated display
MaxPageSize == 3     \* page sizes tried beside the default one
MaxCfgLines == 3     \* lines of the configuration file at the start
MaxDeletes == 1      \* delete commands followed in one run of the menu

---------------------------------------------------------------------------
(* Text helpers: Python's str methods. *)

SeqsUpTo(S, n) == UNION {[1..k -> S] : k \in 0..n}

Min(a, b) == IF a < b THEN a ELSE b

IsSpace(c) == c \in {" ", "\t", "\n", "\r"}

RECURSIVE LStrip(_)
LStrip(s) == IF s # <<>> /\ IsSpace(Head(s)) THEN LStrip(Tail(s)) ELSE s

RECURSIVE RStrip(_)
RStrip(s) ==
    IF s # <<>> /\ IsSpace(s[Len(s)]) THEN RStrip(SubSeq(s, 1, Len(s) - 1)) ELSE s

\* str.strip()
Strip(s) == RStrip(LStrip(s))

\* the index of the first c in s, 0 when there is none
RECURSIVE FindFrom(_, _, _)
FindFrom(s, c, i) ==
    IF i > Len(s) THEN 0
    ELSE IF s[i] = c THEN i
    ELSE FindFrom(s, c, i + 1)

Find(s, c) == FindFrom(s, c, 1)

\* str.split(sep) for a one-character sep: n separators give n + 1 parts
RECURSIVE Split(_, _)
Split(s, sep) ==
    LET i == Find(s, sep)
    IN IF i = 0 THEN <<s>>
       ELSE <<SubSeq(s, 1, i - 1)>> \o Split(SubSeq(s, i + 1, Len(s)), sep)

\* str.splitlines(): no line for an empty text, none after a final newline
RECURSIVE SplitLines(_)
SplitLines(s) ==
    LET i == Find(s, "\n")
    IN IF s = <<>> THEN <<>>
       ELSE IF i = 0 THEN <<s>>
       ELSE <<SubSeq(s, 1, i - 1)>> \o SplitLines(SubSeq(s, i + 1, Len(s)))

\* s.startswith(p)
StartsWith(s, p) == Len(s) >= Len(p) /\ SubSeq(s, 1, Len(p)) = p

\* "\n".join(ls)
RECURSIVE Join(_)
Join(ls) ==
    IF ls = <<>> THEN <<>>
    ELSE IF Len(ls) = 1 THEN ls[1]
    ELSE ls[1] \o <<"\n">> \o Join(Tail(ls))

\* python's `x or "-"`
OrDash(s) == IF s = <<>> THEN <<"-">> ELSE s

---------------------------------------------------------------------------
(* run_snapper_command: the tool's stdout, or None on a non-zero exit. *)

None == [none |-> TRUE, val |-> <<>>]
Stdout(s) == [none |-> FALSE, val |-> s]

\* python's truth value of a str-or-None
Truthy(r) == ~r.none /\ r.val # <<>>

---------------------------------------------------------------------------
(* list_snapshots *)

Delim == "|"            \* the column delimiter of snapper's table

MinFields == 7

\* the lines a list output is made of in this model
LineSamples ==
    { <<"1", "|", "s", "|", "|", "d", "|", "|", "|", " ", "x", " ">>, \* 7 fields
      <<"2", "|", "s", "|", "|", "d", "|", "|">>,                     \* 6 fields
      <<" ", "3", "|", "p", "|", "1", "|", "e", "|", "u", "|", "c", "|", "y", "|", "z">>,
      <<"|", "|", "|", "|", "|", "|">>,                               \* 7 empty
      <<>> }

ListOutputs ==
    { Join(ls) \o t : ls \in SeqsUpTo(LineSamples, MaxOutLines), t \in {<<>>, <<"\n">>} }

ToolResults == {None} \cup {Stdout(o) : o \in ListOutputs}

\* lines 43-44: the trimmed fields of a line
Parts(line) == LET raw == Split(line, Delim) IN [i \in 1..Len(raw) |-> Strip(raw[i])]

SnapshotOf(parts) ==
    [ number      |-> OrDash(parts[1]),
      type        |-> OrDash(parts[2]),
      date        |-> OrDash(parts[4]),
      description |-> OrDash(parts[7]) ]

LineAccepted_strict(line) == Len(Parts(line)) > MinFields

LineAccepted(line) == Len(Parts(line)) >= MinFields

\* the loop of lines 42-53 over lines[2:]
RECURSIVE ParseRows(_)
ParseRows(lines) ==
    IF lines = <<>> THEN <<>>
    ELSE IF LineAccepted(Head(lines))
         THEN <<SnapshotOf(Parts(Head(lines)))>> \o ParseRows(Tail(lines))
         ELSE ParseRows(Tail(lines))

RECURSIVE SkippedRows(_)
SkippedRows(lines) ==
    IF lines = <<>> THEN <<>>
    ELSE IF LineAccepted(Head(lines))
         THEN SkippedRows(Tail(lines))
         ELSE <<Head(lines)>> \o SkippedRows(Tail(lines))

HeaderLines == 2

\* lines[2:]
DataLines(lines) == SubSeq(lines, HeaderLines + 1, Len(lines))

list_snapshots(res) ==
    IF ~Truthy(res) THEN <<>>
    ELSE LET lines == SplitLines(res.val)
         IN IF Len(lines) <= HeaderLines THEN <<>>
            ELSE ParseRows(DataLines(lines))

list_warnings(res) ==
    IF ~Truthy(res) THEN <<>>
    ELSE LET lines == SplitLines(res.val)
         IN IF Len(lines) <= HeaderLines THEN <<>>
            ELSE SkippedRows(DataLines(lines))

---------------------------------------------------------------------------
(* compare_snapshots: the parser of the status output. *)

\* the characters of the class [+\-c ] of line 130
StatusClass == {"+", "-", "c", " "}

\* `line and re.match(r'^[+\-c ].+', line)`
StatusLineMatch(line) == Len(line) >= 2 /\ line[1] \in StatusClass

\* line 129: the line the loop body works on
StatusLine(raw) == Strip(raw)

\* line[2:].strip()
PathOf(line) == Strip(SubSeq(line, 3, Len(line)))

\* the loop of lines 128-137, for the bucket of status character st
RECURSIVE Bucket(_, _)
Bucket(lines, st) ==
    IF lines = <<>> THEN <<>>
    ELSE LET line == StatusLine(Head(lines))
         IN IF StatusLineMatch(line) /\ line[1] = st
            THEN <<PathOf(line)>> \o Bucket(Tail(lines), st)
            ELSE Bucket(Tail(lines), st)

AddedOf(res) == IF Truthy(res) THEN Bucket(SplitLines(res.val), "+") ELSE <<>>
RemovedOf(res) == IF Truthy(res) THEN Bucket(SplitLines(res.val), "-") ELSE <<>>
ModifiedOf(res) == IF Truthy(res) THEN Bucket(SplitLines(res.val), "c") ELSE <<>>

\* the status lines of this model: a status character, a blank, a path
StatusChars == {"+", "-", "c", " ", "x"}
PathSamples == { <<"/", "a">>, <<"/", "b">>, <<"c", "f", "g">>, <<"-", "r">> }
StatusLineSamples == { <<st, " ">> \o p : st \in StatusChars, p \in PathSamples }

StatusOutputs == { Join(ls) \o <<"\n">> : ls \in SeqsUpTo(StatusLineSamples, MaxDiffLines) }

StatusResults == {None} \cup {Stdout(o) : o \in StatusOutputs}

---------------------------------------------------------------------------
(* display_paginated_files *)

ItemsPerPage == 20

TotalPages_naive(n, per) == n \div per + 1

\* line 75
TotalPages(n, per) == (n + per - 1) \div per

\* lines 80-88: the rows of page p, numbered from start_idx + 1
PageRows(fs, per, p) ==
    LET start_idx == (p - 1) * per
        end_idx == Min(start_idx + per, Len(fs))
        slice == SubSeq(fs, start_idx + 1, end_idx)
    IN [i \in 1..Len(slice) |-> <<start_idx + i, slice[i]>>]

NavChoices_all(p, total) == {"p", "n", "q"}

\* lines 101-102: the choices of the navigation prompt
NavChoices(p, total) ==
    IF p > 1 /\ p < total THEN {"p", "n", "q"}
    ELSE IF p = 1 THEN {"n", "q"}
    ELSE {"p", "q"}

NavDefault == "q"

\* rich's Prompt.ask: an empty entry gives the default, an entry outside the
\* choices is asked again
Asked(entry, default) == IF entry = "" THEN default ELSE entry

\* lines 69-91: the call, up to its first prompt; back when there is no file
OpenPager(fs, per, back) ==
    /\ files' = fs
    /\ items_per_page' = per
    /\ IF fs = <<>>
       THEN /\ total_pages' = 0
            /\ current_page' = 0
            /\ shown' = <<>>
            /\ choices' = {}
            /\ pc' = back
       ELSE /\ total_pages' = TotalPages(Len(fs), per)
            /\ current_page' = 1
            /\ shown' = PageRows(fs, per, 1)
            /\ choices' = IF total_pages' > 1 THEN NavChoices(1, total_pages') ELSE {}
            /\ pc' = IF total_pages' > 1 THEN "pager" ELSE "pager_single"

\* the page to show after an accepted choice, lines 104-107
PageAfter(ch, p, total) ==
    IF ch = "n" /\ p < total THEN p + 1
    ELSE IF ch = "p" /\ p > 1 THEN p - 1
    ELSE p

\* n or p at the navigation prompt
PagerMove ==
    /\ pc = "pager"
    /\ \E entry \in {"n", "p"} :
        /\ entry \in choices
        /\ key' = entry
        /\ current_page' = PageAfter(entry, current_page, total_pages)
        /\ shown' = PageRows(files, items_per_page, current_page')
        /\ choices' = NavChoices(current_page', total_pages)
    /\ pc' = "pager"
    /\ UNCHANGED <<files, items_per_page, total_pages>>

\* q, or the default, at the navigation prompt
PagerQuit ==
    /\ pc = "pager"
    /\ \E entry \in {"q", ""} :
        /\ Asked(entry, NavDefault) \in choices
        /\ key' = entry
    /\ pc' = "summary"
    /\ choices' = {}
    /\ UNCHANGED <<files, items_per_page, total_pages, current_page, shown>>

\* Enter on the only page, lines 111-113
PagerAck ==
    /\ pc = "pager_single"
    /\ key' = ""
    /\ pc' = "summary"
    /\ UNCHANGED pageVars

---------------------------------------------------------------------------
(* The configuration file and edit_cleanup_settings. *)

\* lines 247-252
valid_settings ==
    { "TIMELINE_CREATE", "TIMELINE_CLEANUP", "TIMELINE_MIN_AGE", "TIMELINE_LIMIT_HOURLY",
      "TIMELINE_LIMIT_DAILY", "TIMELINE_LIMIT_WEEKLY", "TIMELINE_LIMIT_MONTHLY",
      "TIMELINE_LIMIT_YEARLY", "NUMBER_CLEANUP", "NUMBER_MIN_AGE", "NUMBER_LIMIT",
      "EMPTY_PRE_POST_CLEANUP", "EMPTY_PRE_POST_MIN_AGE" }

\* lines 265-267
NumericSettings ==
    { "TIMELINE_MIN_AGE", "TIMELINE_LIMIT_HOURLY", "TIMELINE_LIMIT_DAILY",
      "TIMELINE_LIMIT_WEEKLY", "TIMELINE_LIMIT_MONTHLY", "TIMELINE_LIMIT_YEARLY",
      "NUMBER_MIN_AGE", "NUMBER_LIMIT", "EMPTY_PRE_POST_MIN_AGE" }

\* line 269
BooleanSettings ==
    { "TIMELINE_CREATE", "TIMELINE_CLEANUP", "NUMBER_CLEANUP", "EMPTY_PRE_POST_CLEANUP" }

Digits == <<"0", "1", "2", "3", "4", "5", "6", "7", "8", "9">>

IsDigit(c) == \E d \in 1..10 : Digits[d] = c

DigitVal(c) == (CHOOSE d \in 1..10 : Digits[d] = c) - 1

RECURSIVE DigitsVal(_, _)
DigitsVal(ds, acc) ==
    IF ds = <<>> THEN acc ELSE DigitsVal(Tail(ds), 10 * acc + DigitVal(Head(ds)))

\* int(value): blanks around, one sign, then digits; anything else raises
\* ValueError
IntParse(v) ==
    LET t == Strip(v)
        signed == t # <<>> /\ Head(t) \in {"+", "-"}
        ds == IF signed THEN Tail(t) ELSE t
        good == ds # <<>> /\ \A i \in 1..Len(ds) : IsDigit(ds[i])
    IN [ ok  |-> good,
         val |-> IF ~good THEN 0
                 ELSE IF signed /\ Head(t) = "-" THEN 0 - DigitsVal(ds, 0)
                 ELSE DigitsVal(ds, 0) ]

RECURSIVE NatStr(_)
NatStr(n) == IF n < 10 THEN <<Digits[n + 1]>> ELSE NatStr(n \div 10) \o <<Digits[(n % 10) + 1]>>

\* str(n)
IntStr(n) == IF n < 0 THEN <<"-">> \o NatStr(0 - n) ELSE NatStr(n)

LowerOf(c) ==
    CASE c = "Y" -> "y" [] c = "E" -> "e" [] c = "S" -> "s"
      [] c = "N" -> "n" [] c = "O" -> "o" [] OTHER -> c

\* str.lower()
Lower(v) == [i \in 1..Len(v) |-> LowerOf(v[i])]

Yes == <<"y", "e", "s">>
No == <<"n", "o">>

Validate_unchecked(st, v) ==
    IF st \in NumericSettings /\ ~IntParse(v).ok
    THEN [ok |-> FALSE, value |-> v, message |-> "must be a number"]
    ELSE [ok |-> TRUE, value |-> v, message |-> ""]

\* lines 263-272 and 296-297: the value to write, or the rejection
Validate(st, v) ==
    IF st \in NumericSettings
    THEN IF IntParse(v).ok
         THEN [ok |-> TRUE, value |-> IntStr(IntParse(v).val), message |-> ""]
         ELSE [ok |-> FALSE, value |-> v, message |-> "must be a number"]
    ELSE IF st \in BooleanSettings /\ Lower(v) \notin {Yes, No}
    THEN [ok |-> FALSE, value |-> v, message |-> "must be yes or no"]
    ELSE [ok |-> TRUE, value |-> v, message |-> ""]

\* f.readlines(): the lines with their newlines
RECURSIVE ReadLines(_)
ReadLines(text) ==
    LET i == Find(text, "\n")
    IN IF text = <<>> THEN <<>>
       ELSE IF i = 0 THEN <<text>>
       ELSE <<SubSeq(text, 1, i)>> \o ReadLines(SubSeq(text, i + 1, Len(text)))

\* f"{setting}=\"{value}\"\n"
SettingLine(st, v) == <<st, "=", "\"">> \o v \o <<"\"", "\n">>

\* line.startswith(f"{setting}=")
IsSettingLine(line, st) == StartsWith(line, <<st, "=">>)

\* lines 281-286: what the loop writes
RECURSIVE Rewritten(_, _, _)
Rewritten(lines, st, v) ==
    IF lines = <<>> THEN <<>>
    ELSE (IF IsSettingLine(Head(lines), st) THEN SettingLine(st, v) ELSE Head(lines))
             \o Rewritten(Tail(lines), st, v)

\* lines 287-288
Appended(lines, st, v) ==
    IF \E i \in 1..Len(lines) : IsSettingLine(lines[i], st) THEN <<>> ELSE SettingLine(st, v)

\* lines 279-288: the file's new content
NewContent(text, st, v) ==
    LET lines == ReadLines(text) IN Rewritten(lines, st, v) \o Appended(lines, st, v)

\* open(config_file, "r")
OpenRead(f) ==
    IF ~f.exists THEN "FileNotFoundError"
    ELSE IF ~f.readable THEN "PermissionError"
    ELSE "ok"

\* open(config_file, "w"), of a file that exists
OpenWrite(f) == IF ~f.writable THEN "PermissionError" ELSE "ok"

\* os.chmod(config_file, 0o644): the owner's (and root's) right
Chmod(f) == IF ~f.owner THEN "PermissionError" ELSE "ok"

\* lines 292-295
ErrorMessage(err) ==
    IF err = "PermissionError" THEN "permission denied" ELSE "config file not found"

\* lines 274-295, with a value that passed validation
WriteSetting(f, st, v) ==
    IF OpenRead(f) # "ok"
    THEN [cfg |-> f, wrote |-> FALSE, message |-> ErrorMessage(OpenRead(f))]
    ELSE IF OpenWrite(f) # "ok"
    THEN [cfg |-> f, wrote |-> FALSE, message |-> ErrorMessage(OpenWrite(f))]
    ELSE LET g == [f EXCEPT !.content = NewContent(f.content, st, v)]
         IN IF Chmod(g) # "ok"
            THEN [cfg |-> g, wrote |-> TRUE, message |-> ErrorMessage(Chmod(g))]
            ELSE [cfg |-> g, wrote |-> TRUE, message |-> "updated"]

\* lines 262-297: edit_cleanup_settings after its second prompt
EditWith(f, st, v) ==
    LET checked == Validate(st, v)
    IN IF checked.ok THEN WriteSetting(f, st, checked.value)
       ELSE [cfg |-> f, wrote |-> FALSE, message |-> checked.message]

\* the settings, values and files of this model
SettingSamples == {"TIMELINE_LIMIT_HOURLY", "NUMBER_CLEANUP", "BOGUS"}

ValueSamples ==
    { <<"5">>, <<" ", "0", "7">>, <<"-", "3">>, <<"7", "x">>, <<>>,
      Yes, No, <<"Y", "E", "S">>, <<"o", "n">> }

CfgLineSamples ==
    { <<"TIMELINE_LIMIT_HOURLY", "=", "\"", "1", "\"">>,
      <<"NUMBER_CLEANUP", "=", "n", "o">>,
      <<"TIMELINE_LIMIT_HOURLY", "X", "=", "2">>,
      <<"#", " ", "TIMELINE_LIMIT_HOURLY", "=">>,
      <<>> }

CfgContents ==
    { Join(ls) \o t : ls \in SeqsUpTo(CfgLineSamples, MaxCfgLines), t \in {<<>>, <<"\n">>} }

NoFile == [exists |-> FALSE, readable |-> FALSE, writable |-> FALSE, owner |-> FALSE,
           content |-> <<>>]

CfgFiles ==
    {NoFile} \cup
    [exists : {TRUE}, readable : BOOLEAN, writable : BOOLEAN, owner : BOOLEAN,
     content : CfgContents]

\* lines 257-260: the first prompt of edit_cleanup_settings
EnterSetting ==
    /\ pc = "edit_setting"
    /\ \E st \in SettingSamples :
        /\ key' = "text"
        /\ IF st \in valid_settings
           THEN /\ setting' = st
                /\ message' = ""
                /\ pc' = "edit_value"
           ELSE /\ setting' = ""
                /\ message' = "invalid setting"
                /\ pc' = "enter"
    /\ UNCHANGED <<cfg, cfgBefore, wrote, value>>

\* lines 262-297: the second prompt, and the edit
EnterValue ==
    /\ pc = "edit_value"
    /\ \E v \in ValueSamples :
        LET done == EditWith(cfg, setting, v)
        IN /\ key' = "text"
           /\ value' = v
           /\ cfgBefore' = cfg.content
           /\ cfg' = done.cfg
           /\ wrote' = done.wrote
           /\ message' = done.message
    /\ pc' = "enter"
    /\ UNCHANGED setting

---------------------------------------------------------------------------
(* The list parser on its own: a call of list_snapshots on any output. *)

InitList ==
    /\ pc = "start"
    /\ key = ""
    /\ output \in ToolResults
    /\ snapshots = <<>>
    /\ warnings = <<>>
    /\ statusOut = None
    /\ added_files = <<>> /\ removed_files = <<>> /\ modified_files = <<>>
    /\ files = <<>> /\ items_per_page = ItemsPerPage /\ total_pages = 0
    /\ current_page = 0 /\ shown = <<>> /\ choices = {}
    /\ cfg = NoFile /\ cfgBefore = <<>> /\ wrote = FALSE /\ setting = "" /\ value = <<>> /\ message = ""
    /\ choice = "" /\ number = None /\ deleted = <<>> /\ farewell = FALSE

ListSnapshots ==
    /\ pc = "start"
    /\ snapshots' = list_snapshots(output)
    /\ warnings' = list_warnings(output)
    /\ pc' = "listed"
    /\ UNCHANGED <<key, output, diffVars, pageVars, cfgVars, message, menuVars>>

NextList == ListSnapshots

SpecList == InitList /\ [][NextList]_vars

---------------------------------------------------------------------------
(* The status parser on its own: lines 117-137 on any status output. *)

InitDiff ==
    /\ pc = "start"
    /\ key = ""
    /\ output = None /\ snapshots = <<>> /\ warnings = <<>>
    /\ statusOut \in StatusResults
    /\ added_files = <<>> /\ removed_files = <<>> /\ modified_files = <<>>
    /\ files = <<>> /\ items_per_page = ItemsPerPage /\ total_pages = 0
    /\ current_page = 0 /\ shown = <<>> /\ choices = {}
    /\ cfg = NoFile /\ cfgBefore = <<>> /\ wrote = FALSE /\ setting = "" /\ value = <<>> /\ message = ""
    /\ choice = "" /\ number = None /\ deleted = <<>> /\ farewell = FALSE

ParseStatus ==
    /\ pc = "start"
    /\ added_files' = AddedOf(statusOut)
    /\ removed_files' = RemovedOf(statusOut)
    /\ modified_files' = ModifiedOf(statusOut)
    /\ pc' = "parsed"
    /\ UNCHANGED <<key, statusOut, listVars, pageVars, cfgVars, message, menuVars>>

NextDiff == ParseStatus

SpecDiff == InitDiff /\ [][NextDiff]_vars

---------------------------------------------------------------------------
(* The paginated display on its own: any list, any page size. *)

PathNo(i) == <<"/", i>>

PageSizes == (1..MaxPageSize) \cup {ItemsPerPage}

InitPage ==
    /\ pc = "call"
    /\ key = ""
    /\ output = None /\ snapshots = <<>> /\ warnings = <<>>
    /\ statusOut = None
    /\ added_files = <<>> /\ removed_files = <<>> /\ modified_files = <<>>
    /\ \E n \in 0..MaxFiles : files = [i \in 1..n |-> PathNo(i)]
    /\ items_per_page \in PageSizes
    /\ total_pages = 0 /\ current_page = 0 /\ shown = <<>> /\ choices = {}
    /\ cfg = NoFile /\ cfgBefore = <<>> /\ wrote = FALSE /\ setting = "" /\ value = <<>> /\ message = ""
    /\ choice = "" /\ number = None /\ deleted = <<>> /\ farewell = FALSE

DisplayPaginatedFiles ==
    /\ pc = "call"
    /\ OpenPager(files, items_per_page, "summary")
    /\ UNCHANGED <<key, listVars, diffVars, cfgVars, message, menuVars>>

PageMove == PagerMove /\ UNCHANGED <<listVars, diffVars, cfgVars, message, menuVars>>
PageQuit == PagerQuit /\ UNCHANGED <<listVars, diffVars, cfgVars, message, menuVars>>
PageAck == PagerAck /\ UNCHANGED <<listVars, diffVars, cfgVars, message, menuVars>>

NextPage == DisplayPaginatedFiles \/ PageMove \/ PageQuit \/ PageAck

SpecPage == InitPage /\ [][NextPage]_vars

---------------------------------------------------------------------------
(* The settings editor on its own: one edit of any file. *)

InitEdit ==
    /\ pc = "edit_setting"
    /\ key = ""
    /\ output = None /\ snapshots = <<>> /\ warnings = <<>>
    /\ statusOut = None
    /\ added_files = <<>> /\ removed_files = <<>> /\ modified_files = <<>>
    /\ files = <<>> /\ items_per_page = ItemsPerPage /\ total_pages = 0
    /\ current_page = 0 /\ shown = <<>> /\ choices = {}
    /\ cfg \in CfgFiles
    /\ cfgBefore = cfg.content
    /\ wrote = FALSE /\ setting = "" /\ value = <<>> /\ message = ""
    /\ choice = "" /\ number = None /\ deleted = <<>> /\ farewell = FALSE

EditSetting == EnterSetting /\ UNCHANGED <<listVars, diffVars, pageVars, menuVars>>
EditValue == EnterValue /\ UNCHANGED <<listVars, diffVars, pageVars, menuVars>>

NextEdit == EditSetting \/ EditValue

SpecEdit == InitEdit /\ [][NextEdit]_vars

---------------------------------------------------------------------------
(* main_menu: the whole program, from prompt to prompt. *)

\* what the tool prints for create, delete and cleanup
ToolOutcomes == {None, Stdout(<<>>), Stdout(<<"o", "k">>)}

TableSample ==
    Join(<< <<"#", "|", "T">>,
            <<"-", "+", "-">>,
            <<"1", "|", "s", "|", "|", "d", "|", "|", "|", "x">>,
            <<"2", "|", "s">> >>) \o <<"\n">>

MenuListResults == {None, Stdout(TableSample)}

\* 21 added files, one more than a page holds, and a modified one
LongStatus ==
    Join([i \in 1..(ItemsPerPage + 1) |-> <<"+", " ", "/", "a">>]) \o <<"\n">>
        \o <<"c", " ", "/", "m", "\n">>

MenuStatusResults ==
    { None,
      Stdout(<<" ", " ", "/", "u", "\n">>),
      Stdout(<<"+", " ", "/", "a", "\n", "-", " ", "/", "r", "\n">>),
      Stdout(LongStatus) }

NumberSamples == { <<>>, <<"1">>, <<"9">> }

MenuCfgFiles ==
    {NoFile} \cup
    { [exists |-> TRUE, readable |-> r, writable |-> w, owner |-> o, content |-> c] :
        r \in BOOLEAN, w \in BOOLEAN, o \in BOOLEAN,
        c \in { <<"TIMELINE_LIMIT_HOURLY", "=", "\"", "1", "\"">> } }

\* where Ctrl-C raises KeyboardInterrupt, which no handler of the program
\* catches: the first listing, and the prompts of rich (Prompt.ask,
\* Confirm.ask, console.input)
Interruptible ==
    { "boot", "menu", "desc", "confirm", "enter", "cleanup_menu", "cleanup_type",
      "edit_setting", "edit_value", "summary", "pager", "pager_single" }

\* line 336: every turn of the loop lists the snapshots again
Relist ==
    \E res \in MenuListResults :
        /\ output' = res
        /\ snapshots' = list_snapshots(res)
        /\ warnings' = list_warnings(res)

\* back at the top of the loop: the locals of the last action are gone
BackToMenu ==
    /\ Relist
    /\ pc' = "menu"
    /\ choice' = ""
    /\ number' = None
    /\ statusOut' = None
    /\ added_files' = <<>> /\ removed_files' = <<>> /\ modified_files' = <<>>
    /\ files' = <<>> /\ items_per_page' = ItemsPerPage /\ total_pages' = 0
    /\ current_page' = 0 /\ shown' = <<>> /\ choices' = {}
    /\ cfgBefore' = cfg.content /\ wrote' = FALSE /\ setting' = "" /\ value' = <<>>

\* what a run of the tool prints: lines 25-27, then the caller's message
ToolMessage(res, done, nothing) ==
    IF res.none THEN "tool error" ELSE IF Truthy(res) THEN done ELSE nothing

InitMenu ==
    /\ pc = "boot"
    /\ key = ""
    /\ output = None /\ snapshots = <<>> /\ warnings = <<>>
    /\ statusOut = None
    /\ added_files = <<>> /\ removed_files = <<>> /\ modified_files = <<>>
    /\ files = <<>> /\ items_per_page = ItemsPerPage /\ total_pages = 0
    /\ current_page = 0 /\ shown = <<>> /\ choices = {}
    /\ cfg \in MenuCfgFiles
    /\ cfgBefore = cfg.content
    /\ wrote = FALSE /\ setting = "" /\ value = <<>> /\ message = ""
    /\ choice = "" /\ number = None /\ deleted = <<>> /\ farewell = FALSE

\* lines 333-351: the first turn of the loop, up to the menu prompt
Boot ==
    /\ pc = "boot"
    /\ BackToMenu
    /\ UNCHANGED <<key, cfg, message, deleted, farewell>>

MainChoices == {"1", "2", "3", "4", "5", "6", "7"}

\* where a main-menu choice leads, lines 353-404
AfterChoice(c) ==
    CASE c = "1" -> "desc"
      [] c \in {"2", "3", "4", "5"} -> "select"
      [] c = "6" -> "cleanup_menu"
      [] OTHER -> "exited"

\* a choice at the main menu, the default being 7
MenuChoose ==
    /\ pc = "menu"
    /\ \E entry \in MainChoices \cup {""} :
        /\ key' = entry
        /\ choice' = Asked(entry, "7")
        /\ pc' = AfterChoice(choice')
        /\ farewell' = (choice' = "7")
    /\ message' = ""
    /\ UNCHANGED <<listVars, diffVars, pageVars, cfgVars, number, deleted>>

\* lines 354-357
EnterDescription ==
    /\ pc = "desc"
    /\ key' = "text"
    /\ \E res \in ToolOutcomes : message' = ToolMessage(res, "created", "")
    /\ pc' = "enter"
    /\ UNCHANGED <<listVars, diffVars, pageVars, cfgVars, menuVars>>

\* what the user does at the prompt of select_snapshot
CtrlC == [ctrlc |-> TRUE, text |-> <<>>]
Typed(t) == [ctrlc |-> FALSE, text |-> t]

SelectEntries == {CtrlC} \cup {Typed(t) : t \in NumberSamples}

\* select_snapshot: the text entered, or None on Ctrl-C (lines 323-328)
Selected(entry) == IF entry.ctrlc THEN None ELSE Stdout(entry.text)

SelectKey(entry) == IF entry.ctrlc THEN "ctrl-c" ELSE IF entry.text = <<>> THEN "" ELSE "text"

\* line 361, left of the `and`: whether the confirmation is asked
AsksConfirm(num) == Truthy(num)

Confirmed_default(entry) == entry \in {"y", ""}

\* Confirm.ask(..., default=False)
Confirmed(entry) == entry = "y"

\* line 360 and the left of line 361
SelectForDelete ==
    /\ pc = "select" /\ choice = "2"
    /\ \E entry \in SelectEntries :
        /\ key' = SelectKey(entry)
        /\ number' = Selected(entry)
        /\ pc' = IF AsksConfirm(number') THEN "confirm" ELSE "enter"
    /\ message' = ""
    /\ UNCHANGED <<listVars, diffVars, pageVars, cfgVars, choice, deleted, farewell>>

\* lines 361-363: the answer, and delete_snapshot
ConfirmDelete ==
    /\ pc = "confirm"
    /\ \E entry \in {"y", "n", ""} :
        /\ key' = entry
        /\ IF Confirmed(entry)
           THEN /\ Len(deleted) < MaxDeletes
                /\ deleted' = Append(deleted, number.val)
                /\ \E res \in ToolOutcomes : message' = ToolMessage(res, "deleted", "")
           ELSE /\ deleted' = deleted
                /\ message' = ""
    /\ pc' = "enter"
    /\ UNCHANGED <<listVars, diffVars, pageVars, cfgVars, choice, number, farewell>>

\* lines 375-378
SelectForRollback ==
    /\ pc = "select" /\ choice = "4"
    /\ \E entry \in SelectEntries :
        /\ key' = SelectKey(entry)
        /\ number' = Selected(entry)
        /\ message' = IF Truthy(number') THEN "rollback instructions" ELSE ""
    /\ pc' = "enter"
    /\ UNCHANGED <<listVars, diffVars, pageVars, cfgVars, choice, deleted, farewell>>

\* lines 206-222: the row of that number
DetailsFound(res, num) ==
    LET rows == DataLines(SplitLines(res.val))
    IN \E i \in 1..Len(rows) :
           /\ Len(Parts(rows[i])) >= MinFields
           /\ Strip(Parts(rows[i])[1]) = Strip(num)

\* snapshot_details
DetailsMessage(res, num) ==
    IF ~Truthy(res) THEN IF res.none THEN "tool error" ELSE "no details"
    ELSE IF DetailsFound(res, num) THEN "details"
    ELSE "snapshot not found"

\* lines 382-386
SelectForDetails ==
    /\ pc = "select" /\ choice = "5"
    /\ \E entry \in SelectEntries :
        /\ key' = SelectKey(entry)
        /\ number' = Selected(entry)
        /\ IF Truthy(number')
           THEN \E res \in MenuListResults : message' = DetailsMessage(res, entry.text)
           ELSE message' = ""
    /\ pc' = "enter"
    /\ UNCHANGED <<listVars, diffVars, pageVars, cfgVars, choice, deleted, farewell>>

\* lines 367-369: the first of the two snapshots to compare
SelectFirst ==
    /\ pc = "select" /\ choice = "3"
    /\ \E entry \in SelectEntries :
        /\ key' = SelectKey(entry)
        /\ IF Truthy(Selected(entry))
           THEN /\ number' = Selected(entry)
                /\ pc' = "select2"
                /\ UNCHANGED <<listVars, diffVars, pageVars, cfgVars, choice>>
           ELSE BackToMenu
    /\ message' = ""
    /\ UNCHANGED <<cfg, deleted, farewell>>

\* lines 159-170: the choices of the summary prompt
SummaryChoices(a, r, m) ==
    (IF a # <<>> THEN {"1"} ELSE {}) \cup (IF r # <<>> THEN {"2"} ELSE {})
        \cup (IF m # <<>> THEN {"3"} ELSE {}) \cup {"4"}

\* lines 370-372 and 115-153: the second snapshot, and compare_snapshots up
\* to its summary prompt
SelectSecond ==
    /\ pc = "select2"
    /\ \E entry \in SelectEntries :
        /\ key' = SelectKey(entry)
        /\ IF ~Truthy(Selected(entry))
           THEN BackToMenu /\ message' = ""
           ELSE \E res \in MenuStatusResults :
                    IF ~Truthy(res)
                    THEN BackToMenu
                         /\ message' = ToolMessage(res, "", "no changes found or error")
                    ELSE IF AddedOf(res) = <<>> /\ RemovedOf(res) = <<>> /\ ModifiedOf(res) = <<>>
                    THEN BackToMenu /\ message' = "no changes to display"
                    ELSE /\ statusOut' = res
                         /\ added_files' = AddedOf(res)
                         /\ removed_files' = RemovedOf(res)
                         /\ modified_files' = ModifiedOf(res)
                         /\ pc' = "summary"
                         /\ message' = "summary"
                         /\ UNCHANGED <<listVars, pageVars, cfgVars, choice, number>>
    /\ UNCHANGED <<cfg, deleted, farewell>>

\* lines 175-182: a bucket to look at
SummaryView ==
    /\ pc = "summary"
    /\ \E entry \in SummaryChoices(added_files, removed_files, modified_files) \ {"4"} :
        /\ key' = entry
        /\ OpenPager(CASE entry = "1" -> added_files
                       [] entry = "2" -> removed_files
                       [] OTHER -> modified_files,
                     ItemsPerPage, "summary")
    /\ message' = ""
    /\ UNCHANGED <<listVars, diffVars, cfgVars, menuVars>>

\* lines 183-184: back to the main menu, the default
SummaryBack ==
    /\ pc = "summary"
    /\ \E entry \in {"4", ""} : key' = entry
    /\ BackToMenu
    /\ message' = ""
    /\ UNCHANGED <<cfg, deleted, farewell>>

MenuPagerMove == PagerMove /\ UNCHANGED <<listVars, diffVars, cfgVars, message, menuVars>>
MenuPagerQuit == PagerQuit /\ UNCHANGED <<listVars, diffVars, cfgVars, message, menuVars>>
MenuPagerAck == PagerAck /\ UNCHANGED <<listVars, diffVars, cfgVars, message, menuVars>>

\* line.startswith(("TIMELINE_", "NUMBER_", "EMPTY_")): a key's name is one
\* symbol, and the names of valid_settings are the ones with such a prefix
IsCleanupLine(line) == line # <<>> /\ line[1] \in valid_settings

\* lines 234-243: the message, or the exception that leaves the function
ViewSettings(f) ==
    IF OpenRead(f) = "FileNotFoundError" THEN "config file not found"
    ELSE IF OpenRead(f) = "PermissionError" THEN "PermissionError"
    ELSE IF \E i \in 1..Len(SplitLines(f.content)) : IsCleanupLine(SplitLines(f.content)[i])
    THEN "cleanup settings"
    ELSE "no cleanup settings found"

\* lines 393-402; an exception out of view_cleanup_settings reaches no handler
CleanupChoose ==
    /\ pc = "cleanup_menu"
    /\ \E entry \in {"1", "2", "3", ""} :
        /\ key' = entry
        /\ CASE Asked(entry, "1") = "1" -> pc' = "cleanup_type" /\ message' = ""
             [] Asked(entry, "1") = "2" ->
                    IF ViewSettings(cfg) = "PermissionError"
                    THEN pc' = "crashed" /\ message' = "traceback"
                    ELSE pc' = "enter" /\ message' = ViewSettings(cfg)
             [] OTHER -> pc' = "edit_setting" /\ message' = ""
    /\ UNCHANGED <<listVars, diffVars, pageVars, cfgVars, menuVars>>

\* lines 395-396 and 224-230
EnterCleanupType ==
    /\ pc = "cleanup_type"
    /\ key' = "text"
    /\ \E res \in ToolOutcomes :
           message' = ToolMessage(res, "cleanup completed", "no snapshots cleaned or error")
    /\ pc' = "enter"
    /\ UNCHANGED <<listVars, diffVars, pageVars, cfgVars, menuVars>>

MenuEditSetting == EnterSetting /\ UNCHANGED <<listVars, diffVars, pageVars, menuVars>>
MenuEditValue == EnterValue /\ UNCHANGED <<listVars, diffVars, pageVars, menuVars>>

\* "Press Enter to continue...", then the next turn of the loop
PressEnter ==
    /\ pc = "enter"
    /\ key' = ""
    /\ BackToMenu
    /\ message' = ""
    /\ UNCHANGED <<cfg, deleted, farewell>>

Interrupt_silent ==
    /\ pc \in Interruptible
    /\ key' = "ctrl-c"
    /\ pc' = "exited"
    /\ message' = ""
    /\ UNCHANGED <<listVars, diffVars, pageVars, cfgVars, menuVars>>

\* lines 408-412: Ctrl-C anywhere but at the prompt of select_snapshot
Interrupt ==
    /\ pc \in Interruptible
    /\ key' = "ctrl-c"
    /\ farewell' = TRUE
    /\ pc' = "exited"
    /\ message' = ""
    /\ UNCHANGED <<listVars, diffVars, pageVars, cfgVars, choice, number, deleted>>

NextMenu ==
    \/ Boot \/ MenuChoose \/ EnterDescription
    \/ SelectForDelete \/ ConfirmDelete \/ SelectForRollback \/ SelectForDetails
    \/ SelectFirst \/ SelectSecond \/ SummaryView \/ SummaryBack
    \/ MenuPagerMove \/ MenuPagerQuit \/ MenuPagerAck
    \/ CleanupChoose \/ EnterCleanupType \/ MenuEditSetting \/ MenuEditValue
    \/ PressEnter \/ Interrupt

SpecMenu == InitMenu /\ [][NextMenu]_vars

---------------------------------------------------------------------------
(* What the claims say, stated without the code's operators. *)

\* the positions of the column delimiter in a line
DelimAt(line) == {i \in 1..Len(line) : line[i] = Delim}

\* the position of the k-th delimiter; 0 before the first field, Len + 1 after
\* the last
FieldEdge(line, k) ==
    IF k = 0 THEN 0
    ELSE IF k > Cardinality(DelimAt(line)) THEN Len(line) + 1
    ELSE CHOOSE p \in DelimAt(line) : Cardinality({q \in DelimAt(line) : q < p}) = k - 1

\* s without the blanks around it
Trimmed(s) ==
    LET ink == {i \in 1..Len(s) : s[i] # " "}
    IN IF ink = {} THEN <<>>
       ELSE SubSeq(s, CHOOSE i \in ink : \A j \in ink : i <= j,
                      CHOOSE i \in ink : \A j \in ink : i >= j)

\* the k-th field of a line, trimmed, "-" when empty
FieldOf(line, k) ==
    LET f == Trimmed(SubSeq(line, FieldEdge(line, k - 1) + 1, FieldEdge(line, k) - 1))
    IN IF Len(f) = 0 THEN <<"-">> ELSE f

\* the lines after the two header lines that have at least 7 fields
RowIndexes(lines) == {i \in 3..Len(lines) : Cardinality(DelimAt(lines[i])) + 1 >= 7}

\* the k-th smallest element of a set of numbers
KthOf(S, k) == CHOOSE i \in S : Cardinality({j \in S : j < i}) = k - 1

ExpectedSnapshots(lines) ==
    [k \in 1..Cardinality(RowIndexes(lines)) |->
        LET line == lines[KthOf(RowIndexes(lines), k)]
        IN [ number      |-> FieldOf(line, 1),
             type        |-> FieldOf(line, 2),
             date        |-> FieldOf(line, 4),
             description |-> FieldOf(line, 7) ]]

OutputLines == IF output.none THEN <<>> ELSE SplitLines(output.val)

\* C1: list_snapshots returns, in input order, one record per line after the
\* two header lines that has at least 7 delimiter-separated fields, built from
\* the trimmed 1st, 2nd, 4th and 7th fields with "-" for an empty one; a
\* shorter line is skipped (and reported) without ending the parse, and an
\* output of fewer than 3 lines gives the empty sequence.
C1_ListRecords ==
    pc = "listed" =>
        /\ snapshots = ExpectedSnapshots(OutputLines)
        /\ Len(snapshots) + Len(warnings) =
               IF Len(OutputLines) < 3 THEN 0 ELSE Len(OutputLines) - 2
        /\ Len(OutputLines) < 3 => snapshots = <<>>

\* a malformed line between two well-formed ones, with an empty field and a
\* padded one
C1_Witness ==
    /\ pc = "listed"
    /\ Len(snapshots) = 2
    /\ Len(warnings) = 1
    /\ Len(OutputLines) = 5
    /\ Cardinality(DelimAt(OutputLines[4])) + 1 < 7
    /\ snapshots[1].description = <<"x">>
    /\ snapshots[2].number = <<"-">>

StatusLines == IF statusOut.none THEN <<>> ELSE SplitLines(statusOut.val)

\* the lines whose first character is st
LinesOfStatus(lines, st) == {i \in 1..Len(lines) : Len(lines[i]) >= 1 /\ lines[i][1] = st}

\* the paths of those lines, in input order: what follows the status
\* character and the blank after it
ExpectedBucket(lines, st) ==
    [k \in 1..Cardinality(LinesOfStatus(lines, st)) |->
        LET line == lines[KthOf(LinesOfStatus(lines, st), k)]
        IN Trimmed(SubSeq(line, 3, Len(line)))]

\* C2: each status line whose status character is '+', '-' or 'c' puts its
\* path in the added, removed or modified sequence, in input order and there
\* only; a line whose status character is a blank or anything else is in none
\* of the three, whatever its path.
C2_DiffBuckets ==
    pc = "parsed" =>
        /\ added_files = ExpectedBucket(StatusLines, "+")
        /\ removed_files = ExpectedBucket(StatusLines, "-")
        /\ modified_files = ExpectedBucket(StatusLines, "c")

\* the least number of pages of `per` items that hold n items
CeilDiv(n, per) == CHOOSE t \in 0..n : t * per >= n /\ (t - 1) * per < n

\* items lo..hi of the list, each with its number
ItemsFromTo(fs, lo, hi) == [i \in 1..(hi - lo + 1) |-> <<lo + i - 1, fs[lo + i - 1]>>]

OnPage == pc \in {"pager", "pager_single"}

\* C5: for n > 0 items and page size s there are ceil(n/s) pages and page k
\* shows exactly items (k-1)*s+1 .. min(k*s, n): every page but the last has
\* s items, the last has n-(pages-1)*s, and 45 items by 20 give 3 pages, the
\* third of 5 items.
C5_Pages ==
    OnPage =>
        LET n == Len(files)
            s == items_per_page
            k == current_page
        IN /\ n > 0
           /\ total_pages = CeilDiv(n, s)
           /\ shown = ItemsFromTo(files, (k - 1) * s + 1, IF k * s < n THEN k * s ELSE n)
           /\ k < total_pages => Len(shown) = s
           /\ k = total_pages => Len(shown) = n - (total_pages - 1) * s
           /\ (n = 45 /\ s = 20) => total_pages = 3 /\ (k = 3 => Len(shown) = 5)

C5_Witness ==
    /\ pc = "pager"
    /\ Len(files) = 45
    /\ items_per_page = 20
    /\ current_page = 3
    /\ total_pages = 3
    /\ Len(shown) = 5
    /\ shown[1] = <<41, PathNo(41)>>

\* what the open navigation prompt may accept, by the claim
AllowedNav ==
    {"q"} \cup (IF current_page > 1 THEN {"p"} ELSE {})
          \cup (IF current_page < total_pages THEN {"n"} ELSE {})

C9_PromptInv ==
    /\ OnPage => 1 <= current_page /\ current_page <= total_pages
    /\ pc = "pager" => choices = AllowedNav

C9_Step ==
    /\ (pc = "call" /\ OnPage') => current_page' = 1
    /\ (pc = "pager" /\ key' = "n") => (pc' = "pager" /\ current_page' = current_page + 1)
    /\ (pc = "pager" /\ key' = "p") => (pc' = "pager" /\ current_page' = current_page - 1)
    /\ (pc = "pager" /\ pc' # "pager") => (Asked(key', "q") = "q" /\ ~OnPage')
    /\ (pc = "pager_single" /\ pc' # "pager_single") => (key' = "" /\ ~OnPage')

\* C9: the display starts on page 1; the prompt accepts quit always,
\* previous iff the page is not the first, next iff it is not the last; so
\* 1 <= current_page <= total_pages always, an accepted previous or next moves
\* by exactly one page, and the loop ends only on quit (or on Enter when there
\* is one page).
C9_Navigation == []C9_PromptInv /\ [][C9_Step]_vars

\* on the middle page of three, after a next
C9_Witness ==
    /\ pc = "pager"
    /\ total_pages = 3
    /\ current_page = 2
    /\ key = "n"
    /\ choices = {"p", "n", "q"}

\* an integer literal: blanks around an optional sign and at least one digit
LooksInteger(v) ==
    LET t == Trimmed(v)
        body == IF t # <<>> /\ t[1] \in {"+", "-"} THEN SubSeq(t, 2, Len(t)) ELSE t
    IN /\ body # <<>>
       /\ \A i \in 1..Len(body) :
              body[i] \in {"0", "1", "2", "3", "4", "5", "6", "7", "8", "9"}

\* yes or no, in either case
YesOrNo(v) == v \in {<<"y", "e", "s">>, <<"n", "o">>, <<"Y", "E", "S">>, <<"N", "O">>}

AgeOrLimit(st) == st \in (valid_settings \ BooleanSettings)

FailsValidation(st, v) ==
    \/ AgeOrLimit(st) /\ ~LooksInteger(v)
    \/ st \in BooleanSettings /\ ~YesOrNo(v)

EditDone == pc = "enter" /\ setting # ""

\* C3: an edit whose value fails validation (not an integer for an age or
\* limit key, not yes/no for a boolean key) is rejected with a message and
\* leaves the configuration file unchanged: it is never opened for writing.
C3_RejectedUnchanged ==
    (EditDone /\ FailsValidation(setting, value)) =>
        /\ message \in {"must be a number", "must be yes or no"}
        /\ ~wrote
        /\ cfg.content = cfgBefore

\* a rejected value for a file this user could have written
C3_Witness ==
    /\ EditDone
    /\ setting = "NUMBER_CLEANUP"
    /\ value = <<"o", "n">>
    /\ message = "must be yes or no"
    /\ cfg.exists /\ cfg.readable /\ cfg.writable /\ cfg.owner
    /\ cfg.content # <<>>

\* the lines of a text, without their newlines
TextLines(text) == SplitLines(text)

KeyLine(line, st) == Len(line) >= 2 /\ line[1] = st /\ line[2] = "="

LineFor(st, v) == <<st, "=", "\"">> \o v \o <<"\"">>

\* values that are written as entered
PlainValue(st, v) ==
    \/ AgeOrLimit(st) /\ v \in {<<"5">>, <<"-", "3">>}
    \/ st \in BooleanSettings /\ YesOrNo(v)

\* the file after the edit, by the claim
EditedLines(before, st, v) ==
    IF \E i \in 1..Len(before) : KeyLine(before[i], st)
    THEN [i \in 1..Len(before) |-> IF KeyLine(before[i], st) THEN LineFor(st, v) ELSE before[i]]
    ELSE before \o <<LineFor(st, v)>>

\* C4: after a successful edit of key K the file is the original with K's
\* line rewritten in place as K="value" or, K being absent, the original
\* followed by one new line K="value"; every other line is the same, in the
\* same position, also when the last line had no newline.
C4_OnlyKeyLine ==
    (EditDone /\ message = "updated" /\ PlainValue(setting, value)) =>
        TextLines(cfg.content) = EditedLines(TextLines(cfgBefore), setting, value)

\* C6: an edit that ends with a configuration-file error says 'not found'
\* or 'permission denied', two different messages, and has written nothing:
\* the file's content is what it was, also when the error came after the file
\* was opened for writing.
C6_ErrorNoWrite ==
    (EditDone /\ message \in {"permission denied", "config file not found"}) =>
        /\ message = "config file not found" <=> ~cfg.exists
        /\ cfg.content = cfgBefore

Stopped == pc \in {"exited", "crashed"}

\* C7: the menu loop stops only on the exit choice (7, the default) or on an
\* interrupt; a failure of the tool or an error of the configuration file
\* (not found, permission denied, invalid value) in any menu action, viewing
\* the cleanup settings included, is a message, after which the loop goes on.
C7_NoFatalError ==
    Stopped => (pc = "exited" /\ farewell /\ key \in {"7", "", "ctrl-c"})

\* C8, as stated: whatever prompt is open, a Ctrl-C prints the farewell
\* message and stops the loop.
C8_InterruptStops == key = "ctrl-c" => (pc = "exited" /\ farewell)

SelectPrompts == {"select", "select2"}

C8_Step ==
    key' = "ctrl-c" =>
        IF pc \in SelectPrompts
        THEN /\ pc' \in {"enter", "menu"}
             /\ number' = None
             /\ farewell' = farewell
        ELSE /\ pc' = "exited"
             /\ farewell'

\* C8, amended: a Ctrl-C at any prompt of the menu loop but a
\* snapshot-selection prompt prints the farewell message and stops the loop;
\* at a snapshot-selection prompt it cancels the selection (no number is
\* returned) and the loop goes on.
C8_InterruptStopsOrCancels == [][C8_Step]_vars

\* a Ctrl-C at the confirmation prompt, a number having been selected
C8_Witness ==
    /\ key = "ctrl-c"
    /\ pc = "exited"
    /\ farewell
    /\ choice = "2"
    /\ ~number.none /\ number.val # <<>>

C10_Step ==
    /\ deleted' # deleted =>
           /\ pc = "confirm"
           /\ key' = "y"
           /\ deleted' = Append(deleted, number.val)
    /\ (pc = "select" /\ choice = "2" /\ key' \in {"ctrl-c", ""}) =>
           (deleted' = deleted /\ pc' # "confirm")
    /\ (pc = "confirm" /\ key' # "y") => deleted' = deleted

C10_ConfirmInv ==
    pc = "confirm" => (choice = "2" /\ ~number.none /\ number.val # <<>>)

\* C10: `snapper delete` is run only in choice 2 of the main menu, only after
\* a non-empty snapshot number was entered and the confirmation (default no)
\* answered yes, and with exactly that number; a selection cancelled by
\* Ctrl-C or an empty entry, or a declined confirmation, runs no delete.
C10_DeleteOnlyConfirmed == []C10_ConfirmInv /\ [][C10_Step]_vars

C10_Witness ==
    /\ deleted = << <<"1">> >>
    /\ key = "y"
    /\ pc = "enter"
    /\ choice = "2"
    /\ number = Stdout(<<"1">>)

===========================================================================
